---- MODULE Spec2Model ----
(***************************************************************************)
(* Model of intersect.py: intersection of two cylinders and the unrolled   *)
(* 2D cutting template of the second one.                                  *)
(*                                                                         *)
(* Python floats are modelled as exact rationals <<n, d>> (d > 0, lowest   *)
(* terms).  +, -, *, / are exact; math.sqrt is exact on squares of         *)
(* rationals and otherwise rounded down to a multiple of 1/SqrtDen;        *)
(* math.cos / math.sin of the 32 sampling angles are rounded to a multiple *)
(* of 1/64; math.pi is the rational 201/64.                                *)
(***************************************************************************)
EXTENDS Integers, Sequences, FiniteSets, TLC

VARIABLES pc, args, c0, c1, lines, i, drawing, saves, hist,
          coef, line, t_vals, c0x, drawingx

vars == <<pc, args, c0, c1, lines, i, drawing, saves, hist,
          coef, line, t_vals, c0x, drawingx>>

\* value of a variable that the running entry point does not use
nil == <<"nil">>

(***************************************************************************)
(* Bounds of the model                                                     *)
(***************************************************************************)
\* quadratic() is exercised on coefficients n/1 and n/2, |n| <= MaxCoef
MaxCoef == 4
\* cylinder radii are 1 .. MaxRadius
MaxRadius == 2
\* resolution of a rounded math.sqrt
SqrtDen == 64
\* candidate line parameters are k/2, |k| <= MaxT
MaxT == 12

\* _NDIVS: number of divisions around the cylinder circumference
NDIVS == 32

(***************************************************************************)
(* float arithmetic                                                        *)
(***************************************************************************)
Abs(x) == IF x < 0 THEN -x ELSE x

RECURSIVE Gcd(_, _)
Gcd(x, y) == IF y = 0 THEN x ELSE Gcd(y, x % y)

\* the float n/d (d # 0)
Frac(n, d) ==
    LET g == Gcd(Abs(n), Abs(d))
        s == IF d < 0 THEN -1 ELSE 1
    IN  <<s * (n \div g), s * (d \div g)>>

\* float(n) of an integer n
float(n) == <<n, 1>>

Zero == float(0)
One == float(1)
Two == float(2)
Four == float(4)

FNeg(p) == <<-p[1], p[2]>>

FAdd(p, q) ==
    LET g == Gcd(p[2], q[2])
    IN  Frac(p[1] * (q[2] \div g) + q[1] * (p[2] \div g), (p[2] \div g) * q[2])

FSub(p, q) == FAdd(p, FNeg(q))

FMul(p, q) ==
    LET g1 == Gcd(Abs(p[1]), q[2])
        g2 == Gcd(Abs(q[1]), p[2])
    IN  IF p[1] = 0 \/ q[1] = 0 THEN Zero
        ELSE <<(p[1] \div g1) * (q[1] \div g2), (p[2] \div g2) * (q[2] \div g1)>>

\* p / q; Python raises ZeroDivisionError for q = 0.0
ZeroDivisionError == <<"ZeroDivisionError">>

FDiv(p, q) ==
    IF q = Zero THEN ZeroDivisionError
    ELSE FMul(p, IF q[1] < 0 THEN <<-q[2], -q[1]>> ELSE <<q[2], q[1]>>)

FLt(p, q) == FSub(p, q)[1] < 0
FLe(p, q) == FSub(p, q)[1] <= 0
FGt(p, q) == FLt(q, p)

\* floor of the square root of a natural number
RECURSIVE SqrtSearch(_, _, _)
SqrtSearch(n, lo, hi) ==
    IF lo >= hi THEN lo
    ELSE LET mid == (lo + hi + 1) \div 2
         IN  IF mid * mid <= n THEN SqrtSearch(n, mid, hi)
             ELSE SqrtSearch(n, lo, mid - 1)

ISqrt(n) == SqrtSearch(n, 0, IF n < 46340 THEN n ELSE 46340)

IsSquare(n) == ISqrt(n) * ISqrt(n) = n

\* a rational that is the square of a rational
IsFSquare(p) == p[1] >= 0 /\ IsSquare(p[1]) /\ IsSquare(p[2])

\* math.sqrt(p), p >= 0
sqrt(p) ==
    IF IsFSquare(p) THEN <<ISqrt(p[1]), ISqrt(p[2])>>
    ELSE LET whole == p[1] \div p[2]
             rest == p[1] % p[2]
             scaled == whole * SqrtDen * SqrtDen
                       + (rest * SqrtDen * SqrtDen) \div p[2]
         IN  Frac(ISqrt(scaled), SqrtDen)

\* math.pi
pi == <<201, 64>>

\* math.cos(2.0 * math.pi * k / _NDIVS) for k = 0 .. 8, in 64ths
CosQuarter == <<64, 63, 59, 53, 45, 36, 24, 12, 0>>

\* math.cos(theta), theta = 2.0 * math.pi * k / _NDIVS
cos(k) ==
    LET m == k % NDIVS
        q == NDIVS \div 4
    IN  IF m <= q THEN Frac(CosQuarter[m + 1], 64)
        ELSE IF m <= 2 * q THEN Frac(-CosQuarter[2 * q - m + 1], 64)
        ELSE IF m <= 3 * q THEN Frac(-CosQuarter[m - 2 * q + 1], 64)
        ELSE Frac(CosQuarter[4 * q - m + 1], 64)

\* math.sin(theta), theta = 2.0 * math.pi * k / _NDIVS
sin(k) == cos(k + 3 * (NDIVS \div 4))

(***************************************************************************)
(* vector algebra                                                          *)
(***************************************************************************)
vec(x, y, z) == <<float(x), float(y), float(z)>>

dot(u, v) ==
    FAdd(FAdd(FMul(u[1], v[1]), FMul(u[2], v[2])), FMul(u[3], v[3]))

scale(v, k) == <<FMul(v[1], k), FMul(v[2], k), FMul(v[3], k)>>

normalize(v) ==
    LET len == sqrt(dot(v, v))
    IN  scale(v, FDiv(One, len))

cross(u, v) ==
    << FSub(FMul(u[2], v[3]), FMul(u[3], v[2])),
       FSub(FMul(u[3], v[1]), FMul(u[1], v[3])),
       FSub(FMul(u[1], v[2]), FMul(u[2], v[1])) >>

\* gen_normal with the sign of the last component lost
gen_normal_unsigned(v) ==
    IF v[1] = Zero THEN vec(1, 0, 0)
    ELSE IF v[2] = Zero THEN vec(0, 1, 0)
    ELSE IF v[3] = Zero THEN vec(0, 0, 1)
    ELSE <<Zero, v[3], v[2]>>

\* return a normal to a vector
gen_normal(v) ==
    IF v[1] = Zero THEN vec(1, 0, 0)
    ELSE IF v[2] = Zero THEN vec(0, 1, 0)
    ELSE IF v[3] = Zero THEN vec(0, 0, 1)
    ELSE <<Zero, v[3], FNeg(v[2])>>

\* the line position given the line and the t-parameter
line_x(ln, t) ==
    LET u == ln[1]
        v == ln[2]
    IN  << FAdd(u[1], FMul(v[1], t)),
           FAdd(u[2], FMul(v[2], t)),
           FAdd(u[3], FMul(v[3], t)) >>

(***************************************************************************)
(* quadratic solver                                                        *)
(***************************************************************************)
\* the general form solution with "/ 2.0 * a" in place of "/ (2.0 * a)"
general_precedence(a, b, c) ==
    LET d == FSub(FMul(b, b), FMul(FMul(Four, a), c))
    IN  IF d = Zero THEN
            IF a = Zero THEN ZeroDivisionError
            ELSE <<"1", FMul(FDiv(FNeg(b), Two), a)>>
        ELSE IF FLt(d, Zero) THEN <<"0">>
        ELSE IF a = Zero THEN ZeroDivisionError
        ELSE LET sd == sqrt(d)
             IN  <<"2", FMul(FDiv(FAdd(FNeg(b), sd), Two), a),
                        FMul(FDiv(FSub(FNeg(b), sd), Two), a)>>

\* the general form solution (intersect.py lines 78-85)
general(a, b, c) ==
    LET d == FSub(FMul(b, b), FMul(FMul(Four, a), c))
    IN  IF d = Zero THEN
            IF a = Zero THEN ZeroDivisionError
            ELSE <<"1", FDiv(FNeg(b), FMul(Two, a))>>
        ELSE IF FLt(d, Zero) THEN <<"0">>
        ELSE IF a = Zero THEN ZeroDivisionError
        ELSE LET sd == sqrt(d)
             IN  <<"2", FDiv(FAdd(FNeg(b), sd), FMul(Two, a)),
                        FDiv(FSub(FNeg(b), sd), FMul(Two, a))>>

\* quadratic without the case "b != 0.0 and c == 0.0" of the a == 0.0 branch
quadratic_fallthrough(a, b, c) ==
    IF a = Zero /\ b = Zero /\ c = Zero THEN <<"inf">>
    ELSE IF a = Zero /\ b = Zero /\ c # Zero THEN <<"inv">>
    ELSE IF a = Zero /\ b # Zero /\ c # Zero THEN <<"1", FDiv(FNeg(c), b)>>
    ELSE general(a, b, c)

\* return the real solutions of a quadratic
quadratic(a, b, c) ==
    IF a = Zero /\ b = Zero /\ c = Zero THEN <<"inf">>
    ELSE IF a = Zero /\ b = Zero /\ c # Zero THEN <<"inv">>
    ELSE IF a = Zero /\ b # Zero /\ c = Zero THEN <<"1", Zero>>
    ELSE IF a = Zero /\ b # Zero /\ c # Zero THEN <<"1", FDiv(FNeg(c), b)>>
    ELSE general(a, b, c)

(***************************************************************************)
(* class cylinder                                                          *)
(***************************************************************************)
\* cylinder.__init__(o, a, r, l, color)
cylinder(o, a, r, l, color) ==
    LET axis == normalize(a)
        n0 == normalize(gen_normal(axis))
        n1 == normalize(cross(axis, n0))
    IN  [o |-> o, a |-> axis, r |-> r, l |-> l, color |-> color,
         n0 |-> n0, n1 |-> n1]

\* the surface point of generator k (loop body of cylinder.gen_lines)
gen_point(self, k) ==
    LET rc == FMul(self.r, cos(k))
        rs == FMul(self.r, sin(k))
    IN  << FAdd(FAdd(self.o[1], FMul(rc, self.n0[1])), FMul(rs, self.n1[1])),
           FAdd(FAdd(self.o[2], FMul(rc, self.n0[2])), FMul(rs, self.n1[2])),
           FAdd(FAdd(self.o[3], FMul(rc, self.n0[3])), FMul(rs, self.n1[3])) >>

\* cylinder.gen_lines: lines[k + 1] is the line of generator k
gen_lines(self) == [k \in 1..NDIVS |-> <<gen_point(self, k - 1), self.a>>]

\* the coefficients a, b, c built by cylinder.intersect_line (lines 153-163)
line_coefs(self, ln) ==
    LET u == ln[1]
        v == ln[2]
        vn == <<dot(v, self.n0), dot(v, self.n1), dot(v, self.a)>>
        a == FAdd(FMul(vn[1], vn[1]), FMul(vn[2], vn[2]))
        b == FMul(Two, FAdd(FMul(u[1], vn[1]), FMul(u[2], vn[2])))
        c == FSub(FAdd(FMul(u[1], u[1]), FMul(u[2], u[2])), FMul(self.r, self.r))
    IN  <<a, b, c>>

\* intersect_line that drops the hits beyond the ends of the cylinder
intersect_line_finite(self, ln) ==
    LET k == line_coefs(self, ln)
        tv == quadratic(k[1], k[2], k[3])
        h(t) == dot(<<FSub(line_x(ln, t)[1], self.o[1]),
                      FSub(line_x(ln, t)[2], self.o[2]),
                      FSub(line_x(ln, t)[3], self.o[3])>>, self.a)
        inside(t) == FLe(Zero, h(t)) /\ FLe(h(t), self.l)
    IN  IF tv[1] = "2" /\ ~(inside(tv[2]) /\ inside(tv[3])) THEN <<"0">>
        ELSE tv

\* cylinder.intersect_line
intersect_line(self, ln) ==
    LET k == line_coefs(self, ln)
    IN  quadratic(k[1], k[2], k[3])

(***************************************************************************)
(* gen_dxf                                                                 *)
(***************************************************************************)
\* dxf.line(p, q)
dxf_line(p, q) == <<p, q>>

\* base line is the circumference of c1
base_len(cyl) == FMul(FMul(Two, pi), cyl.r)

\* x taken one division too far
template_x_shifted(k, base) == FDiv(FMul(float(k + 1), base), float(NDIVS))

\* x = i * base / _NDIVS
template_x(k, base) == FDiv(FMul(float(k), base), float(NDIVS))

\* the lines added to the drawing for one t_vals (if/elif chain of gen_dxf)
cut_lines(x, tv, len) ==
    IF tv[1] = "inf" THEN <<>>
    ELSE IF tv[1] = "0" THEN <<dxf_line(<<x, Zero>>, <<x, len>>)>>
    ELSE IF tv[1] = "1" THEN <<dxf_line(<<x, Zero>>, <<x, len>>)>>
    ELSE IF tv[1] = "2" THEN
        LET y0 == IF FGt(tv[2], tv[3]) THEN tv[3] ELSE tv[2]
            y1 == IF FGt(tv[2], tv[3]) THEN tv[2] ELSE tv[3]
        IN  <<dxf_line(<<x, Zero>>, <<x, y0>>), dxf_line(<<x, y1>>, <<x, len>>)>>
    ELSE <<>>

\* one pass of the loop body of gen_dxf for generator k
gen_segments(cyl0, cyl1, lns, k) ==
    cut_lines(template_x(k, base_len(cyl1)), intersect_line(cyl0, lns[k + 1]), cyl1.l)

(***************************************************************************)
(* Inputs                                                                  *)
(***************************************************************************)
\* constructor arguments (o, a, r, l) of cylinder A (c0) in main
ArgsA ==
    { <<o, vec(0, 0, 1), float(r), float(l)>> :
        o \in {vec(0, 0, 0), vec(3, 0, 0)}, r \in 1..MaxRadius, l \in {8} }

\* constructor arguments (o, a, r, l) of cylinder B (c1) in main
ArgsB ==
    { <<o, a, float(r), float(l)>> :
        o \in {vec(0, 0, 0), vec(0, -4, 0), vec(5, 0, 0)},
        a \in {vec(0, 0, 1), vec(0, 1, 0), vec(0, 3, 4)},
        r \in {1, 2}, l \in {4, 8} }

\* other lengths of cylinder A
AltLengths == {float(2), float(6), float(16)}

\* coefficients given to quadratic
CoefSet == { Frac(n, k) : n \in -MaxCoef..MaxCoef, k \in {1, 2} }

(***************************************************************************)
(* main: construct c0 and c1, then gen_dxf(c0, c1)                         *)
(***************************************************************************)
Init ==
    /\ pc = "main"
    /\ args \in { <<x, y>> : x \in ArgsA, y \in ArgsB }
    /\ c0 = nil /\ c1 = nil /\ c0x = nil
    /\ lines = nil /\ i = 0
    /\ drawing = nil /\ drawingx = nil
    /\ saves = 0 /\ hist = <<>>
    /\ coef = nil /\ line = nil /\ t_vals = nil

\* main, lines 214-215 (c0x: cylinder A of the compared run, if any)
Main ==
    /\ pc = "main"
    /\ c0' = cylinder(args[1][1], args[1][2], args[1][3], args[1][4], "red")
    /\ c1' = cylinder(args[2][1], args[2][2], args[2][3], args[2][4], "blue")
    /\ c0x' = IF Len(args) = 3
              THEN cylinder(args[1][1], args[1][2], args[1][3], args[3], "red")
              ELSE nil
    /\ pc' = "gen_dxf"
    /\ UNCHANGED <<args, lines, i, drawing, drawingx, saves, hist,
                   coef, line, t_vals>>

\* gen_dxf, lines 181-183
GenLines ==
    /\ pc = "gen_dxf"
    /\ lines' = gen_lines(c1)
    /\ drawing' = <<>>
    /\ drawingx' = IF Len(args) # 3 THEN nil ELSE <<>>
    /\ pc' = "base"
    /\ UNCHANGED <<args, c0, c1, c0x, i, saves, hist, coef, line, t_vals>>

\* gen_dxf, lines 186-187
AddBase ==
    /\ pc = "base"
    /\ LET ln == dxf_line(<<Zero, Zero>>, <<base_len(c1), Zero>>)
       IN  /\ drawing' = Append(drawing, ln)
           /\ drawingx' = IF Len(args) # 3 THEN nil ELSE Append(drawingx, ln)
    /\ i' = 0
    /\ pc' = "loop"
    /\ UNCHANGED <<args, c0, c1, c0x, lines, saves, hist, coef, line, t_vals>>

\* gen_dxf, lines 189-206: one pass of the loop
Loop ==
    /\ pc = "loop"
    /\ i < NDIVS
    /\ drawing' = drawing \o gen_segments(c0, c1, lines, i)
    /\ drawingx' = IF Len(args) # 3 THEN nil
                   ELSE drawingx \o gen_segments(c0x, c1, lines, i)
    /\ hist' = Append(hist, intersect_line(c0, lines[i + 1]))
    /\ i' = i + 1
    /\ UNCHANGED <<pc, args, c0, c1, c0x, lines, saves, coef, line, t_vals>>

\* gen_dxf, line 208
Save ==
    /\ pc = "loop"
    /\ i = NDIVS
    /\ saves' = saves + 1
    /\ pc' = "done"
    /\ UNCHANGED <<args, c0, c1, c0x, lines, i, drawing, drawingx, hist,
                   coef, line, t_vals>>

Next == Main \/ GenLines \/ AddBase \/ Loop \/ Save

Spec == Init /\ [][Next]_vars

(***************************************************************************)
(* two runs of main that differ only in the length of cylinder A           *)
(***************************************************************************)
InitLen ==
    /\ pc = "main"
    /\ args \in { <<x, y, z>> : x \in ArgsA, y \in ArgsB, z \in AltLengths }
    /\ c0 = nil /\ c1 = nil /\ c0x = nil
    /\ lines = nil /\ i = 0
    /\ drawing = nil /\ drawingx = nil
    /\ saves = 0 /\ hist = <<>>
    /\ coef = nil /\ line = nil /\ t_vals = nil

SpecLen == InitLen /\ [][Next]_vars

(***************************************************************************)
(* quadratic(a, b, c) on its own                                           *)
(***************************************************************************)
InitQuad ==
    /\ pc = "quadratic"
    /\ coef \in CoefSet \X CoefSet \X CoefSet
    /\ t_vals = nil
    /\ args = nil /\ c0 = nil /\ c1 = nil /\ c0x = nil
    /\ lines = nil /\ i = 0
    /\ drawing = nil /\ drawingx = nil
    /\ saves = 0 /\ hist = <<>> /\ line = nil

Quadratic ==
    /\ pc = "quadratic"
    /\ t_vals' = quadratic(coef[1], coef[2], coef[3])
    /\ pc' = "quadratic_done"
    /\ UNCHANGED <<args, c0, c1, c0x, lines, i, drawing, drawingx, saves,
                   hist, coef, line>>

NextQuad == Quadratic

SpecQuad == InitQuad /\ [][NextQuad]_vars

(***************************************************************************)
(* cylinder.intersect_line on its own                                      *)
(***************************************************************************)
\* poses of the intersected cylinder
PoseSet ==
    { cylinder(o, a, float(r), float(8), "red") :
        o \in {vec(0, 0, 0), vec(3, 0, 0), vec(0, 0, 5), vec(1, 2, 0)},
        a \in {vec(0, 0, 1), vec(0, 1, 0), vec(1, 0, 0), vec(0, 3, 4)},
        r \in 1..MaxRadius }

\* lines (u, v)
LineSet ==
    { <<u, v>> :
        u \in {vec(0, 0, 0), vec(0, -4, 0), vec(3, -4, 1), vec(1, 0, 2)},
        v \in {vec(1, 0, 0), vec(0, 1, 0), vec(0, 0, 1), vec(1, 1, 0),
               <<Zero, Frac(3, 5), Frac(4, 5)>>} }

InitLine ==
    /\ pc = "intersect_line"
    /\ c0 \in PoseSet
    /\ line \in LineSet
    /\ t_vals = nil
    /\ args = nil /\ c1 = nil /\ c0x = nil
    /\ lines = nil /\ i = 0
    /\ drawing = nil /\ drawingx = nil
    /\ saves = 0 /\ hist = <<>> /\ coef = nil

IntersectLine ==
    /\ pc = "intersect_line"
    /\ t_vals' = intersect_line(c0, line)
    /\ pc' = "intersect_line_done"
    /\ UNCHANGED <<args, c0, c1, c0x, lines, i, drawing, drawingx, saves,
                   hist, coef, line>>

NextLine == IntersectLine

SpecLine == InitLine /\ [][NextLine]_vars

(***************************************************************************)
(* the cylinder constructor on its own                                     *)
(***************************************************************************)
\* axes whose norm, and the norm of whose generated normal, are rational
AxisSet ==
    { vec(0, 0, 1), vec(0, 0, -2), vec(0, 1, 0), vec(0, -3, 0),
      vec(0, 3, 4), vec(0, -3, 4), vec(0, 4, -3), vec(0, 5, 12),
      vec(1, 0, 0), vec(-2, 0, 0), vec(3, 0, 4), vec(4, 0, -3), vec(-5, 0, 12),
      vec(3, 4, 0), vec(-4, 3, 0), vec(5, 12, 0), vec(-8, -6, 0),
      vec(12, 3, 4), vec(12, 4, 3), vec(-12, 3, 4), vec(12, -3, 4),
      vec(12, 3, -4), vec(-12, -4, -3), vec(24, 6, 8), vec(84, 5, 12),
      vec(-84, 12, -5) }

InitFrame ==
    /\ pc = "new"
    /\ args \in { <<o, a, float(r), float(8)>> :
                    o \in {vec(0, 0, 0), vec(0, 10, -10)},
                    a \in AxisSet, r \in 1..MaxRadius }
    /\ c0 = nil
    /\ c1 = nil /\ c0x = nil
    /\ lines = nil /\ i = 0
    /\ drawing = nil /\ drawingx = nil
    /\ saves = 0 /\ hist = <<>>
    /\ coef = nil /\ line = nil /\ t_vals = nil

\* c0 = cylinder(o, a, r, l, color)
Construct ==
    /\ pc = "new"
    /\ c0' = cylinder(args[1], args[2], args[3], args[4], "red")
    /\ pc' = "constructed"
    /\ UNCHANGED <<args, c1, c0x, lines, i, drawing, drawingx, saves, hist,
                   coef, line, t_vals>>

NextFrame == Construct

SpecFrame == InitFrame /\ [][NextFrame]_vars

(***************************************************************************)
(* Properties                                                              *)
(***************************************************************************)
FMin(p, q) == IF FLe(p, q) THEN p ELSE q
FMax(p, q) == IF FLe(p, q) THEN q ELSE p

\* gen_dxf has entered its loop
InLoop == pc \in {"loop", "done"}

\* x_k = k * (2 * pi * B.radius) / N, the template column of generator k
ColX(k) == FDiv(FMul(float(k), FMul(FMul(Two, pi), c1.r)), float(NDIVS))

\* the vertical lines of the drawing that stand in the column of generator k
SegsAt(k) ==
    LET x == ColX(k)
    IN  SelectSeq(Tail(drawing), LAMBDA s : s[1][1] = x /\ s[2][1] = x)

\* the line spanning the whole column of generator k
FullLine(k) == dxf_line(<<ColX(k), Zero>>, <<ColX(k), c1.l>>)

\* y lies on the finite cylinder B
OnB(y) == FLe(Zero, y) /\ FLe(y, c1.l)

\* the roots carried by a result of quadratic
Roots(tv) ==
    IF tv[1] = "1" THEN {tv[2]}
    ELSE IF tv[1] = "2" THEN {tv[2], tv[3]}
    ELSE {}

\* b*b - 4*a*c
Discriminant(k) == FSub(FMul(k[2], k[2]), FMul(FMul(Four, k[1]), k[3]))

\* a*t*t + b*t + c
Eval(k, t) == FAdd(FAdd(FMul(k[1], FMul(t, t)), FMul(k[2], t)), k[3])

\* squared perpendicular distance of the point x from the axis line of cyl
RadialDist2(cyl, x) ==
    LET w == <<FSub(x[1], cyl.o[1]), FSub(x[2], cyl.o[2]), FSub(x[3], cyl.o[3])>>
    IN  FSub(dot(w, w), FMul(dot(w, cyl.a), dot(w, cyl.a)))

OnSurface(cyl, x) == RadialDist2(cyl, x) = FMul(cyl.r, cyl.r)

\* candidate line parameters
TSet == { Frac(k, 2) : k \in -MaxT..MaxT }

\* C1: every line gen_dxf adds to the drawing has both its y-endpoints inside
\* [0, B.length].
C1_SegmentsClipped ==
    InLoop =>
        \A k \in 1..Len(drawing) :
            OnB(drawing[k][1][2]) /\ OnB(drawing[k][2][2])

\* C2: a generator classified NoSolution ('inv') or NoRealRoots ('0') gets
\* exactly one line, from (x_i, 0) to (x_i, B.length).
C2_NoIntersectionFullLine ==
    InLoop =>
        \A k \in 0..(i - 1) :
            hist[k + 1][1] \in {"inv", "0"} => SegsAt(k) = <<FullLine(k)>>

\* cylinders A and B are parallel with equal radius and their axes are more
\* than 2*radius apart
ParallelApart ==
    /\ c0.a = c1.a
    /\ c0.r = c1.r
    /\ FGt(RadialDist2(c0, c1.o), FMul(Four, FMul(c0.r, c0.r)))

\* C3: for parallel, non-overlapping cylinders every generator classifies as
\* NoRealRoots ('0') and every column holds exactly one full-length line.
C3_ParallelAllOpen ==
    (InLoop /\ ParallelApart) =>
        \A k \in 0..(i - 1) :
            hist[k + 1] = <<"0">> /\ SegsAt(k) = <<FullLine(k)>>

\* C4: the parameters intersect_line returns are exactly the parameters at
\* which the line is at perpendicular distance radius from the cylinder's axis
\* line, for a cylinder of any pose.
C4_RootsOnSurface ==
    pc = "intersect_line_done" =>
        /\ \A t \in TSet :
               OnSurface(c0, line_x(line, t))
                   => (t \in Roots(t_vals) \/ t_vals[1] = "inf")
        /\ (t_vals[1] = "1" \/ (t_vals[1] = "2"
                /\ IsFSquare(Discriminant(line_coefs(c0, line)))))
               => \A t \in Roots(t_vals) : OnSurface(c0, line_x(line, t))

\* C5: quadratic returns one of the five tags, decided by a, b, c and
\* d = b*b - 4*a*c as: 'inf' iff a=b=c=0; 'inv' iff a=0, b=0, c#0; '1' iff
\* (a#0 and d=0) or (a=0 and b#0); '2' iff a#0 and d>0; '0' iff a#0 and d<0;
\* the a=0 branch never reaches the division by 2a.
C5_QuadraticTags ==
    pc = "quadratic_done" =>
        LET a == coef[1]
            b == coef[2]
            c == coef[3]
            d == Discriminant(coef)
            tag == t_vals[1]
        IN  /\ tag \in {"inf", "inv", "1", "2", "0"}
            /\ (tag = "inf") <=> (a = Zero /\ b = Zero /\ c = Zero)
            /\ (tag = "inv") <=> (a = Zero /\ b = Zero /\ c # Zero)
            /\ (tag = "1") <=> ((a # Zero /\ d = Zero) \/ (a = Zero /\ b # Zero))
            /\ (tag = "2") <=> (a # Zero /\ FGt(d, Zero))
            /\ (tag = "0") <=> (a # Zero /\ FLt(d, Zero))
            /\ Len(t_vals) = (IF tag = "1" THEN 2 ELSE IF tag = "2" THEN 3 ELSE 1)

\* a linear equation (a = 0, b # 0) was solved
C5_Witness ==
    /\ pc = "quadratic_done"
    /\ coef[1] = Zero /\ coef[2] # Zero /\ coef[3] = Zero
    /\ t_vals = <<"1", Zero>>

\* C6: when the discriminant is the square of a rational, every root that
\* quadratic returns satisfies a*t*t + b*t + c = 0, and the two roots of
\* TwoRoots differ.
C6_RootsSolve ==
    (pc = "quadratic_done" /\ t_vals[1] \in {"1", "2"}
        /\ IsFSquare(Discriminant(coef))) =>
        /\ \A t \in Roots(t_vals) : Eval(coef, t) = Zero
        /\ t_vals[1] = "2" => t_vals[2] # t_vals[3]

\* two distinct roots, not integers, were returned
C6_Witness ==
    /\ pc = "quadratic_done"
    /\ t_vals[1] = "2"
    /\ IsFSquare(Discriminant(coef))
    /\ t_vals[2][2] # 1 /\ t_vals[3][2] # 1
    /\ coef[1] # One

\* a line of the drawing reaches into the open interval (y0, y1)
Covers(s, y0, y1) ==
    /\ FLt(FMin(s[1][2], s[2][2]), y1)
    /\ FGt(FMax(s[1][2], s[2][2]), y0)

\* C7: a generator classified TwoRoots(t1, t2) gets exactly the two lines
\* (x_i, 0)-(x_i, y0) and (x_i, y1)-(x_i, B.length), y0 = min(t1, t2),
\* y1 = max(t1, t2), and none of its lines covers a point of (y0, y1).
C7_TwoRootsCut ==
    InLoop =>
        \A k \in 0..(i - 1) :
            hist[k + 1][1] = "2" =>
                LET y0 == FMin(hist[k + 1][2], hist[k + 1][3])
                    y1 == FMax(hist[k + 1][2], hist[k + 1][3])
                IN  /\ SegsAt(k) = << dxf_line(<<ColX(k), Zero>>, <<ColX(k), y0>>),
                                      dxf_line(<<ColX(k), y1>>, <<ColX(k), c1.l>>) >>
                    /\ \A n \in 1..Len(SegsAt(k)) : ~Covers(SegsAt(k)[n], y0, y1)

\* the drawing while gen_dxf runs: the base line first, then the columns of
\* the generators processed so far, in increasing order, at most two lines each
C8_Shape ==
    /\ pc \in {"main", "gen_dxf"} => drawing = nil
    /\ pc = "base" => drawing = <<>>
    /\ saves = (IF pc = "done" THEN 1 ELSE 0)
    /\ pc = "done" => i = NDIVS
    /\ InLoop =>
        \* col[n] = k when line n of the drawing stands at x_k = k*(2*pi*r)/N
        LET col == [n \in 2..Len(drawing) |->
                       FDiv(FMul(drawing[n][1][1], float(NDIVS)),
                            FMul(FMul(Two, pi), c1.r))]
        IN  /\ Len(lines) = NDIVS
            /\ i < NDIVS => lines[i + 1] = <<gen_point(c1, i), c1.a>>
            /\ Len(hist) = i
            /\ i > 0 => hist[i] = intersect_line(c0, lines[i])
            /\ Len(drawing) >= 1
            /\ drawing[1] = dxf_line(<<Zero, Zero>>, <<FMul(FMul(Two, pi), c1.r), Zero>>)
            /\ Len(drawing) <= 1 + 2 * i
            /\ \A n \in 2..Len(drawing) :
                   /\ drawing[n][2][1] = drawing[n][1][1]
                   /\ col[n][2] = 1
                   /\ col[n][1] \in 0..(i - 1)
                   /\ hist[col[n][1] + 1][1] # "inf"
            /\ \A n \in 2..(Len(drawing) - 1) : col[n][1] <= col[n + 1][1]
            /\ \A n \in 2..(Len(drawing) - 2) : col[n][1] < col[n + 2][1]

\* a step of gen_dxf only appends to the drawing, and only in the loop or when
\* it adds the base line; saving leaves the drawing as it is
C8_Step ==
    /\ (pc \in {"base", "loop"} /\ pc' \in {"loop", "done"}) =>
           /\ Len(drawing') >= Len(drawing)
           /\ SubSeq(drawing', 1, Len(drawing)) = drawing
    /\ pc = "base" => Len(drawing') = 1
    /\ saves' # saves => (drawing' = drawing /\ pc' = "done")
    /\ pc = "done" => drawing' = drawing

\* C8: the drawing receives first the base line (0,0)-(2*pi*B.radius, 0), then
\* for generators 0, 1, ..., N-1 in this order zero, one or two vertical lines
\* at x_i = i*(2*pi*B.radius)/N; after generator k it holds the base line and
\* at most 2*(k+1) vertical lines; nothing else is added and it is saved once.
C8_DrawingOrder == []C8_Shape /\ [][C8_Step]_vars

\* the drawing was saved with columns of one line and columns of two lines
C8_Witness ==
    /\ pc = "done"
    /\ saves = 1
    /\ Len(drawing) > 1 + NDIVS
    /\ Len(drawing) < 1 + 2 * NDIVS
    /\ \E k, m \in 0..(NDIVS - 1) : Len(SegsAt(k)) = 1 /\ Len(SegsAt(m)) = 2

\* C9: the stored axis, n0 and n1 are pairwise orthogonal, each of unit
\* length, and n1 points along axis x n0.
C9_FrameOrthonormal ==
    pc = "constructed" =>
        /\ dot(c0.a, c0.n0) = Zero
        /\ dot(c0.a, c0.n1) = Zero
        /\ dot(c0.n0, c0.n1) = Zero
        /\ dot(c0.a, c0.a) = One
        /\ dot(c0.n0, c0.n0) = One
        /\ dot(c0.n1, c0.n1) = One
        /\ FGt(dot(c0.n1, cross(c0.a, c0.n0)), Zero)
        /\ cross(c0.n1, cross(c0.a, c0.n0)) = vec(0, 0, 0)

\* a cylinder was constructed from an axis with no zero component
C9_Witness ==
    /\ pc = "constructed"
    /\ args[2][1] # Zero /\ args[2][2] # Zero /\ args[2][3] # Zero
    /\ c0.n0[2] # Zero /\ c0.n0[3] # Zero

\* C10: the length of cylinder A changes neither the result of
\* A.intersect_line on any generator line nor the lines gen_dxf emits.
C10_LengthIgnored ==
    (InLoop /\ Len(args) = 3) =>
        /\ c0x.l # c0.l
        /\ drawingx = drawing
        /\ i > 0 => intersect_line(c0x, lines[i]) = hist[i]

\* both runs have finished and cylinder A was hit beyond the shorter length
C10_Witness ==
    /\ pc = "done"
    /\ Len(args) = 3
    /\ c0x.l # c0.l
    /\ \E k \in 1..NDIVS :
           /\ hist[k][1] = "2"
           /\ FGt(line_x(lines[k], hist[k][2])[3], FMin(c0.l, c0x.l))
           /\ FLt(line_x(lines[k], hist[k][2])[3], FMax(c0.l, c0x.l))

====
